---- MODULE Spec2Model ----
(***************************************************************************)
(* FileSavantAI: the line-delimited MCP server of file_info_mcp_server.c   *)
(* and the standalone lister of file_info.c.                               *)
(*                                                                         *)
(* C strings are sequences of one-character strings (without the final     *)
(* NUL).  A pointer that may be NULL is a sequence of length 0 (NULL) or 1 *)
(* (the value pointed to).  stdout is a sequence of tokens, one per piece  *)
(* of text a printf call writes; stdout_buf holds what has been written    *)
(* but not flushed, out what a downstream reader can observe.              *)
(***************************************************************************)
EXTENDS Integers, Sequences, FiniteSets, TLC

VARIABLES
    pc,           \* position of main: "start", "read", "dispatch", "listing", "done"
    stdin,        \* characters in the input stream that fgets has not consumed
    stdin_closed, \* the writer has closed the input stream
    nlines,       \* number of lines the writer has sent so far
    buffer,       \* main's buffer[4096], as a string
    id,           \* main's id
    directory,    \* main's directory: NULL or the malloc'ed string
    dir_open,     \* number of DIR handles open
    seen,         \* the entries readdir has returned while the current line is handled
    first,        \* handle_list_files' first
    stdout_buf,   \* stdout: written, not yet flushed
    out,          \* stdout: flushed
    exit_status,  \* NULL while running, then the status main returned
    lines_read    \* history: the buffer of every loop iteration, in order

vars == <<pc, stdin, stdin_closed, nlines, buffer, id, directory, dir_open,
          seen, first, stdout_buf, out, exit_status, lines_read>>

----------------------------------------------------------------------------
(* Bounds of the model. *)

\* lines the writer sends before closing the stream
MaxLines == 2
\* entries a directory stream returns before its end
MaxEntries == 3
\* padding that makes a line longer than the read buffer: BUFSZ + LongPad characters
LongPad == 3

----------------------------------------------------------------------------
(* Characters and the literals of the program. *)

Q == "\""
BS == "\\"
NL == "\n"

NULL == <<>>
Ptr(v) == <<v>>
Deref(p) == p[1]

\* sizeof(buffer)
BUFSZ == 4096
\* sizeof(fullpath)
PATHSZ == 2048
\* sizeof(search_pattern)
PATSZ == 256
\* the largest int
INT_MAX == 2147483647

PatToolsList ==
    <<Q,"m","e","t","h","o","d",Q,":",Q,"t","o","o","l","s","/","l","i","s","t",Q>>
PatListFiles ==
    <<Q,"n","a","m","e",Q,":",Q,"l","i","s","t","_","f","i","l","e","s",Q>>
PatInitialize ==
    <<Q,"m","e","t","h","o","d",Q,":",Q,"i","n","i","t","i","a","l","i","z","e",Q>>
IdMarker ==
    <<Q,"i","d",Q,":">>
KeyDirectory ==
    <<"d","i","r","e","c","t","o","r","y">>
Dot == <<".">>

----------------------------------------------------------------------------
(* The C library functions the program calls. *)

Min(S) == CHOOSE x \in S : \A y \in S : x <= y

Take(s, n) == SubSeq(s, 1, IF Len(s) < n THEN Len(s) ELSE n)
Drop(s, n) == SubSeq(s, n + 1, Len(s))

strlen(s) == Len(s)

MatchAt(haystack, needle, i) ==
    \A j \in 1..Len(needle) : haystack[i + j - 1] = needle[j]

\* strstr: the index of the first occurrence of needle, 0 for NULL
strstr(haystack, needle) ==
    LET hits == {i \in 1..(Len(haystack) - Len(needle) + 1) :
                    MatchAt(haystack, needle, i)}
    IN  IF hits = {} THEN 0 ELSE Min(hits)

\* strchr: the index of the first occurrence of c, 0 for NULL
strchr(s, c) ==
    LET hits == {i \in 1..Len(s) : s[i] = c}
    IN  IF hits = {} THEN 0 ELSE Min(hits)

\* strcspn(s, "\n"): the length of the prefix of s without a newline
strcspn(s, c) ==
    IF strchr(s, c) = 0 THEN Len(s) ELSE strchr(s, c) - 1

\* snprintf(dst, size, ...): the text, cut to size - 1 characters
snprintf(size, text) == Take(text, size - 1)

\* strcmp(a, b) == 0
streq(a, b) == a = b

Digits == <<"0","1","2","3","4","5","6","7","8","9">>
isdigit(c) == \E i \in 1..10 : Digits[i] = c
DigitVal(c) == (CHOOSE i \in 1..10 : Digits[i] = c) - 1
isspace(c) == c \in {" ", "\t", "\n", "\r", "\f"}

RECURSIVE SkipSpace(_, _)
SkipSpace(s, i) ==
    IF i <= Len(s) /\ isspace(s[i]) THEN SkipSpace(s, i + 1) ELSE i

\* the digits at s[i..], accumulated as a negative number (the range of int
\* reaches one further below zero); 1 when the number does not fit an int
RECURSIVE DigitsValue(_, _, _)
DigitsValue(s, i, acc) ==
    IF i <= Len(s) /\ isdigit(s[i])
    THEN IF acc < ((0 - INT_MAX - 1) + DigitVal(s[i]) + 9) \div 10
         THEN 1
         ELSE DigitsValue(s, i + 1, 10 * acc - DigitVal(s[i]))
    ELSE acc

\* the digits at s[i..] modulo 2^32, as <<high 16 bits, low 16 bits>>
RECURSIVE DigitsWrapped(_, _, _)
DigitsWrapped(s, i, acc) ==
    IF i <= Len(s) /\ isdigit(s[i])
    THEN LET lo == 10 * acc[2] + DigitVal(s[i])
             hi == 10 * acc[1] + lo \div 65536
         IN  DigitsWrapped(s, i + 1, <<hi % 65536, lo % 65536>>)
    ELSE acc

\* the int with the bits <<hi, lo>>, negated first when neg
Wrap32(w, neg) ==
    LET hi == IF ~neg THEN w[1]
              ELSE IF w[2] = 0 THEN (65536 - w[1]) % 65536 ELSE 65535 - w[1]
        lo == IF ~neg \/ w[2] = 0 THEN w[2] ELSE 65536 - w[2]
    IN  IF hi >= 32768 THEN (hi - 65536) * 65536 + lo ELSE hi * 65536 + lo

\* atoi: the values a call can return: leading white space, an optional sign,
\* digits.  A number an int cannot hold is undefined behaviour: implementations
\* wrap it or saturate it.
atoi(s) ==
    LET i == SkipSpace(s, 1)
        neg == i <= Len(s) /\ s[i] = "-"
        j == IF i <= Len(s) /\ s[i] \in {"-", "+"} THEN i + 1 ELSE i
        v == DigitsValue(s, j, 0)
        fits == v # 1 /\ (neg \/ v # 0 - INT_MAX - 1)
    IN  IF fits
        THEN {IF neg THEN v ELSE 0 - v}
        ELSE {Wrap32(DigitsWrapped(s, j, <<0, 0>>), neg),
              IF neg THEN 0 - INT_MAX - 1 ELSE INT_MAX}

\* fgets(buffer, size, stdin): how many characters of the stream it consumes
fgets(size, stream) ==
    LET nl == strchr(Take(stream, size - 1), NL)
    IN  IF nl # 0 THEN nl
        ELSE IF Len(stream) < size - 1 THEN Len(stream) ELSE size - 1

----------------------------------------------------------------------------
(* Request Extractor. *)

\* extract_string_value returning an empty string where it returns NULL
extract_string_value_empty(json, key) ==
    LET search_pattern == snprintf(PATSZ, <<Q>> \o key \o <<Q, ":", Q>>)
        start == strstr(json, search_pattern)
        rest == Drop(json, start - 1 + strlen(search_pattern))
        end == strchr(rest, Q)
    IN  IF start = 0 THEN Ptr(<<>>)
        ELSE IF end = 0 THEN Ptr(<<>>)
        ELSE Ptr(SubSeq(rest, 1, end - 1))

\* extract_string_value ending the value at the next double-quote that no
\* backslash precedes
extract_string_value_unescaped(json, key) ==
    LET search_pattern == snprintf(PATSZ, <<Q>> \o key \o <<Q, ":", Q>>)
        start == strstr(json, search_pattern)
        rest == Drop(json, start - 1 + strlen(search_pattern))
        ends == {i \in 1..Len(rest) : rest[i] = Q /\ (i = 1 \/ rest[i - 1] # BS)}
    IN  IF start = 0 THEN NULL
        ELSE IF ends = {} THEN NULL
        ELSE Ptr(SubSeq(rest, 1, Min(ends) - 1))

\* extract_string_value: NULL, or a pointer to the malloc'ed copy of the value
extract_string_value(json, key) ==
    LET search_pattern == snprintf(PATSZ, <<Q>> \o key \o <<Q, ":", Q>>)
        start == strstr(json, search_pattern)
        rest == Drop(json, start - 1 + strlen(search_pattern))
        end == strchr(rest, Q)
    IN  IF start = 0 THEN NULL
        ELSE IF end = 0 THEN NULL
        ELSE Ptr(SubSeq(rest, 1, end - 1))

\* extract_id: the values the call can return (one, unless atoi overflows)
extract_id(json) ==
    LET id_start == strstr(json, IdMarker)
    IN  IF id_start = 0 THEN {-1}
        ELSE atoi(Drop(json, id_start - 1 + 5))

----------------------------------------------------------------------------
(* Response Serializer: the text each call writes, as tokens. *)

\* S_IFMT field of a mode, in units of 010000
FileFormat(mode) == (mode \div 4096) % 16
S_ISDIR(mode) == FileFormat(mode) = 4
S_ISREG(mode) == FileFormat(mode) = 8
S_ISLNK(mode) == FileFormat(mode) = 10
S_ISCHR(mode) == FileFormat(mode) = 2
S_ISBLK(mode) == FileFormat(mode) = 6
S_ISFIFO(mode) == FileFormat(mode) = 1
S_ISSOCK(mode) == FileFormat(mode) = 12

get_file_type(mode) ==
    IF S_ISDIR(mode) THEN "directory"
    ELSE IF S_ISREG(mode) THEN "file"
    ELSE IF S_ISLNK(mode) THEN "symlink"
    ELSE IF S_ISCHR(mode) THEN "char_device"
    ELSE IF S_ISBLK(mode) THEN "block_device"
    ELSE IF S_ISFIFO(mode) THEN "fifo"
    ELSE IF S_ISSOCK(mode) THEN "socket"
    ELSE "unknown"

\* the text send_initialization prints
InitializedText ==
    <<[k |-> "notification", method |-> "notifications/initialized"]>>

\* the text send_tools_list prints
ToolsListText(rid) ==
    <<[k |-> "tools_list", id |-> rid, tools |-> <<"list_files">>,
       required |-> <<"directory">>]>>

\* the text send_error prints
ErrorText(rid, code, message) ==
    <<[k |-> "error", id |-> rid, code |-> code, message |-> message]>>

\* the text main prints for initialize
InitializeText(rid) ==
    <<[k |-> "initialize_result", id |-> rid, protocolVersion |-> "2024-11-05",
       listChanged |-> TRUE, name |-> "FileSavantAI", version |-> "1.0.0"]>>

\* the opening of a listing: {"jsonrpc":"2.0","id":<id>,"result":[
ResultOpenText(rid) == <<[k |-> "result_open", id |-> rid]>>

\* the end of a listing: ]}\n
ResultCloseText == <<[k |-> "result_close"]>>

\* the path handle_list_files passes to stat
StatPath(dirname, filename) ==
    snprintf(PATHSZ, dirname \o <<"/">> \o filename)

\* the permission bits of <sys/stat.h>
S_IRUSR == 256
S_IWUSR == 128
S_IXUSR == 64
S_IRGRP == 32
S_IWGRP == 16
S_IXGRP == 8
S_IROTH == 4
S_IWOTH == 2
S_IXOTH == 1

\* mode & (2 * mask - 1): the bit of the mask or any bit below it
BitAnd_below(mode, mask) == mode % (2 * mask)

\* mode & mask, for a mask of one bit
BitAnd(mode, mask) == ((mode \div mask) % 2) * mask

\* the range of the unsigned short that %hu prints
USHRT_RANGE == 65536

\* getpwuid and getgrgid: the entry of the id, NULL when there is none
getpwuid(uid) == IF uid = 0 THEN Ptr([pw_name |-> "root"]) ELSE NULL
getgrgid(gid) == IF gid = 0 THEN Ptr([gr_name |-> "wheel"]) ELSE NULL

\* the text print_file_json_compact prints
print_file_json_compact(dirname, filename, st, isfirst) ==
    LET pwd == getpwuid(st.st_uid)
        grp == getgrgid(st.st_gid)
        file_type == get_file_type(st.st_mode)
        fullpath == IF streq(dirname, Dot)
                    THEN snprintf(PATHSZ, filename)
                    ELSE snprintf(PATHSZ, dirname \o <<"/">> \o filename)
    IN  (IF ~isfirst THEN <<[k |-> "comma"]>> ELSE <<>>)
        \o <<[k |-> "object", name |-> filename, path |-> fullpath,
              size |-> st.st_size,
              owner |-> IF pwd # NULL THEN Deref(pwd).pw_name ELSE "unknown",
              group |-> IF grp # NULL THEN Deref(grp).gr_name ELSE "unknown",
              uid |-> st.st_uid, gid |-> st.st_gid,
              permissions |-> st.st_mode % 512,
              permissions_readable |->
                  << IF S_ISDIR(st.st_mode) THEN "d" ELSE "-",
                     IF BitAnd(st.st_mode, S_IRUSR) # 0 THEN "r" ELSE "-",
                     IF BitAnd(st.st_mode, S_IWUSR) # 0 THEN "w" ELSE "-",
                     IF BitAnd(st.st_mode, S_IXUSR) # 0 THEN "x" ELSE "-",
                     IF BitAnd(st.st_mode, S_IRGRP) # 0 THEN "r" ELSE "-",
                     IF BitAnd(st.st_mode, S_IWGRP) # 0 THEN "w" ELSE "-",
                     IF BitAnd(st.st_mode, S_IXGRP) # 0 THEN "x" ELSE "-",
                     IF BitAnd(st.st_mode, S_IROTH) # 0 THEN "r" ELSE "-",
                     IF BitAnd(st.st_mode, S_IWOTH) # 0 THEN "w" ELSE "-",
                     IF BitAnd(st.st_mode, S_IXOTH) # 0 THEN "x" ELSE "-" >>,
              type |-> file_type,
              modified |-> st.st_mtime, accessed |-> st.st_atime,
              changed |-> st.st_ctime,
              inode |-> st.st_ino, device |-> st.st_dev,
              hard_links |-> st.st_nlink % USHRT_RANGE,
              block_size |-> st.st_blksize, blocks |-> st.st_blocks]>>

----------------------------------------------------------------------------
(* Method Dispatcher: the if / else-if chain of main. *)

\* the chain with "method":"initialize" tested before the tool invocation
Classify_initialize_first(buf) ==
    IF strstr(buf, PatToolsList) # 0 THEN "tools_list"
    ELSE IF strstr(buf, PatInitialize) # 0 THEN "initialize"
    ELSE IF strstr(buf, PatListFiles) # 0 THEN "list_files"
    ELSE "none"

\* the chain with the tool invocation tested first
Classify_call_first(buf) ==
    IF strstr(buf, PatListFiles) # 0 THEN "list_files"
    ELSE IF strstr(buf, PatToolsList) # 0 THEN "tools_list"
    ELSE IF strstr(buf, PatInitialize) # 0 THEN "initialize"
    ELSE "none"

Classify(buf) ==
    IF strstr(buf, PatToolsList) # 0 THEN "tools_list"
    ELSE IF strstr(buf, PatListFiles) # 0 THEN "list_files"
    ELSE IF strstr(buf, PatInitialize) # 0 THEN "initialize"
    ELSE "none"

----------------------------------------------------------------------------
(* The environment: the request lines a client may send, the directories  *)
(* opendir can open and the entries readdir and stat may report.           *)

RECURSIVE Cat(_)
Cat(parts) == IF parts = <<>> THEN <<>> ELSE Head(parts) \o Cat(Tail(parts))

LB == <<"{">>
RB == <<"}">>
Comma == <<",">>
MethodCall ==
    <<Q,"m","e","t","h","o","d",Q,":",Q,"t","o","o","l","s","/","c","a","l","l",Q>>
MethodPing ==
    <<Q,"m","e","t","h","o","d",Q,":",Q,"p","i","n","g",Q>>
ParamsOpen ==
    <<Q,"p","a","r","a","m","s",Q,":","{">>
ArgumentsOpen ==
    <<Q,"a","r","g","u","m","e","n","t","s",Q,":","{">>
DirD == <<"/","d">>
DirNoSuch ==
    <<"/","n","o","/","s","u","c","h","/","d","i","r">>
DirEscaped ==
    <<"/","d",BS,Q,"x">>

IdField(digits) == IdMarker \o digits
DirField(d) == <<Q>> \o KeyDirectory \o <<Q, ":", Q>> \o d \o <<Q>>
Padding(n) == [i \in 1..n |-> " "]

\* {"id":<n>,"method":"tools/call","params":{"name":"list_files","arguments":{"directory":"<d>"}}}
CallListFiles(digits, d) ==
    Cat(<<LB, IdField(digits), Comma, MethodCall, Comma, ParamsOpen, PatListFiles,
          Comma, ArgumentsOpen, DirField(d), RB, RB, RB>>)

ReqToolsList == Cat(<<LB, IdField(<<"1">>), Comma, PatToolsList, RB>>)
ReqCallDot == CallListFiles(<<"2">>, Dot)
ReqCallD == CallListFiles(<<"3">>, DirD)
ReqCallNoSuch == CallListFiles(<<"4">>, DirNoSuch)
ReqCallMissing ==
    Cat(<<LB, IdField(<<"5">>), Comma, MethodCall, Comma, ParamsOpen, PatListFiles,
          RB, RB>>)
ReqInitialize == Cat(<<LB, IdField(<<"6">>), Comma, PatInitialize, RB>>)
ReqPing == Cat(<<LB, IdField(<<"7">>), Comma, MethodPing, RB>>)
\* "method":"tools/list" and "name":"list_files" on one line, no directory
ReqListAndCall ==
    Cat(<<LB, IdField(<<"8">>), Comma, PatToolsList, Comma, ParamsOpen,
          PatListFiles, RB, RB>>)
\* "method":"initialize" and "name":"list_files" on one line
ReqInitAndCall ==
    Cat(<<LB, IdField(<<"9">>), Comma, PatInitialize, Comma, ParamsOpen,
          PatListFiles, Comma, ArgumentsOpen, DirField(Dot), RB, RB, RB>>)
\* all three patterns on one line
ReqAllThree ==
    Cat(<<LB, IdField(<<"1", "0">>), Comma, PatInitialize, Comma, PatToolsList,
          Comma, ParamsOpen, PatListFiles, Comma, ArgumentsOpen, DirField(Dot),
          RB, RB, RB>>)
ReqInitNoId == Cat(<<LB, PatInitialize, RB>>)
\* no id, no directory, "method":"initialize" and "name":"list_files"
ReqCallNoId == Cat(<<LB, PatInitialize, Comma, PatListFiles, RB>>)
\* {"id":"abc","method":"initialize"}
ReqStringId ==
    Cat(<<LB, IdField(<<Q, "a", "b", "c", Q>>), Comma, PatInitialize, RB>>)
\* {"id":12x,"method":"tools/list"}
ReqTrailingId ==
    Cat(<<LB, IdField(<<"1", "2", "x">>), Comma, PatToolsList, RB>>)
\* {"id": -3,"method":"initialize"}
ReqNegativeId ==
    Cat(<<LB, IdField(<<" ", "-", "3">>), Comma, PatInitialize, RB>>)
\* {"id":99999999999,"method":"tools/list"}
ReqBigId ==
    Cat(<<LB, IdField([i \in 1..11 |-> "9"]), Comma, PatToolsList, RB>>)
\* the directory value has no closing quote
ReqUnterminated ==
    Cat(<<LB, IdField(<<"1", "5">>), Comma, PatListFiles, Comma, <<Q>>,
          KeyDirectory, <<Q, ":", Q>>, DirD>>)
\* the directory value holds an escaped quote: "directory":"/d\"x"
ReqEscaped == CallListFiles(<<"1", "6">>, DirEscaped)
ReqEmpty == <<>>
\* a line longer than the read buffer: a call without directory, padding, and
\* "method":"tools/list" beyond the first BUFSZ - 1 characters
ReqLong ==
    Cat(<<LB, IdField(<<"1", "7">>), Comma, PatListFiles, Padding(BUFSZ + LongPad),
          PatToolsList, RB>>)

Lines ==
    {ReqToolsList, ReqCallDot, ReqCallD, ReqCallNoSuch, ReqCallMissing,
     ReqInitialize, ReqPing, ReqListAndCall, ReqInitAndCall, ReqAllThree,
     ReqInitNoId, ReqCallNoId, ReqStringId, ReqTrailingId, ReqNegativeId,
     ReqBigId, ReqUnterminated, ReqEscaped, ReqEmpty}

\* the lines longer than the read buffer; the writer sends one first, if at all
LongLines == {ReqLong}

\* the lines the writer may send as its last, without a newline, before closing
LastLines == {ReqInitialize, ReqCallMissing}

\* the paths opendir opens
OpenableDirs == {Dot, DirD}
opendir(path) == path \in OpenableDirs

\* a struct stat
StatBuf(mode, size, owner, ino, nlink) ==
    [st_mode |-> mode, st_size |-> size, st_uid |-> owner, st_gid |-> owner,
     st_mtime |-> 1700000300 + ino, st_atime |-> 1700000200 + ino,
     st_ctime |-> 1700000100 + ino, st_ino |-> ino, st_dev |-> 2049,
     st_nlink |-> nlink, st_blksize |-> 4096, st_blocks |-> (size + 511) \div 512]

\* what readdir may return, each with what stat reports for it (st; NULL: stat
\* fails; stat follows symbolic links) and what lstat would report (lst)
Entries ==
    { [d_name |-> <<".", "h">>, d_type |-> "file",
       st |-> Ptr(StatBuf(33152, 9, 0, 11, 1)),
       lst |-> Ptr(StatBuf(33152, 9, 0, 11, 1))],
      [d_name |-> <<"a", ".", "t", "x", "t">>, d_type |-> "file",
       st |-> Ptr(StatBuf(33188, 5, 0, 12, 3)),
       lst |-> Ptr(StatBuf(33188, 5, 0, 12, 3))],
      [d_name |-> <<"l", "n", "k">>, d_type |-> "symlink",
       st |-> Ptr(StatBuf(16877, 4096, 1000, 13, 2)),
       lst |-> Ptr(StatBuf(41471, 2, 1000, 14, 1))],
      [d_name |-> <<"d", "n", "g">>, d_type |-> "symlink",
       st |-> NULL,
       lst |-> Ptr(StatBuf(41471, 7, 0, 15, 1))] }

\* the entries a directory may hold: "." holds at most the regular file a.txt,
\* "/d" any of Entries
EntriesOf(path) ==
    IF path = Dot
    THEN {e \in Entries : e.d_name = <<"a", ".", "t", "x", "t">>}
    ELSE Entries

\* lstat: the entry itself, a symbolic link not followed
lstat(entry) == entry.lst

\* stat: the entry, or the target of a symbolic link
stat(entry) == entry.st

----------------------------------------------------------------------------
(* The program. *)

\* the tokens of one printf, each tagged with the loop iteration that writes it
\* (0: before the loop)
Tagged(toks) ==
    [i \in 1..Len(toks) |-> [req |-> Len(lines_read), tok |-> toks[i]]]

\* printf(...)
Printf(toks) ==
    /\ stdout_buf' = stdout_buf \o Tagged(toks)
    /\ out' = out

\* printf(...); fflush(stdout)
PrintfFlush(toks) ==
    /\ stdout_buf' = <<>>
    /\ out' = out \o stdout_buf \o Tagged(toks)

Init ==
    /\ pc = "start"
    /\ stdin = <<>>
    /\ stdin_closed = FALSE
    /\ nlines = 0
    /\ buffer = <<>>
    /\ id = 0
    /\ directory = NULL
    /\ dir_open = 0
    /\ seen = <<>>
    /\ first = 1
    /\ stdout_buf = <<>>
    /\ out = <<>>
    /\ exit_status = NULL
    /\ lines_read = <<>>

\* what the input stream can hold when a blocked fgets returns, as <<characters,
\* closed, lines sent>>: what is left of the line being read or, after the writer
\* has sent one more line, that line (the last one may lack its newline)
Arrivals ==
    IF stdin # <<>>
    THEN {<<stdin, stdin_closed, nlines>>}
    ELSE IF stdin_closed \/ nlines >= MaxLines
    THEN {}
    ELSE {<<l \o <<NL>>, FALSE, nlines + 1>> :
             l \in Lines \cup (IF nlines = 0 THEN LongLines ELSE {})}
         \cup {<<l, TRUE, nlines + 1>> : l \in LastLines}

\* send_initialization without its fflush
send_initialization_unflushed ==
    /\ pc = "start"
    /\ Printf(InitializedText)
    /\ pc' = "read"
    /\ UNCHANGED <<stdin, stdin_closed, nlines, buffer, id, directory, dir_open,
                   seen, first, exit_status, lines_read>>

\* main, line 147
send_initialization ==
    /\ pc = "start"
    /\ PrintfFlush(InitializedText)
    /\ pc' = "read"
    /\ UNCHANGED <<stdin, stdin_closed, nlines, buffer, id, directory, dir_open,
                   seen, first, exit_status, lines_read>>

\* main keeping the id of the line before when the line has no "id":
main_fgets_stale_id ==
    /\ pc = "read"
    /\ \E a \in Arrivals :
        LET n == fgets(BUFSZ, a[1])
            stripped == Take(Take(a[1], n), strcspn(Take(a[1], n), NL))
        IN  /\ buffer' = stripped
            /\ stdin' = Drop(a[1], n)
            /\ stdin_closed' = a[2]
            /\ nlines' = a[3]
            /\ IF strstr(stripped, IdMarker) = 0
               THEN id' = id
               ELSE \E v \in extract_id(stripped) : id' = v
            /\ lines_read' = Append(lines_read, stripped)
    /\ seen' = <<>>
    /\ pc' = "dispatch"
    /\ UNCHANGED <<directory, dir_open, first, stdout_buf, out, exit_status>>

\* main, lines 150-153: fgets returns a line; strip the newline; extract the id
main_fgets ==
    /\ pc = "read"
    /\ \E a \in Arrivals :
        LET n == fgets(BUFSZ, a[1])
            stripped == Take(Take(a[1], n), strcspn(Take(a[1], n), NL))
        IN  /\ buffer' = stripped
            /\ stdin' = Drop(a[1], n)
            /\ stdin_closed' = a[2]
            /\ nlines' = a[3]
            /\ \E v \in extract_id(stripped) : id' = v
            /\ lines_read' = Append(lines_read, stripped)
    /\ seen' = <<>>
    /\ pc' = "dispatch"
    /\ UNCHANGED <<directory, dir_open, first, stdout_buf, out, exit_status>>

\* main, lines 150 and 173: fgets returns NULL at end of input; return 0
main_eof ==
    /\ pc = "read"
    /\ stdin = <<>>
    /\ stdin_closed' = TRUE
    /\ pc' = "done"
    /\ exit_status' = Ptr(0)
    /\ out' = out \o stdout_buf
    /\ stdout_buf' = <<>>
    /\ seen' = <<>>
    /\ UNCHANGED <<stdin, nlines, buffer, id, directory, dir_open, first,
                   lines_read>>

\* main, lines 155-157
send_tools_list ==
    /\ pc = "dispatch"
    /\ Classify(buffer) = "tools_list"
    /\ PrintfFlush(ToolsListText(id))
    /\ pc' = "read"
    /\ UNCHANGED <<stdin, stdin_closed, nlines, buffer, id, directory, dir_open,
                   seen, first, exit_status, lines_read>>

\* main, lines 158-160 and 163-165: no directory value; send_error
main_missing_directory ==
    /\ pc = "dispatch"
    /\ Classify(buffer) = "list_files"
    /\ extract_string_value(buffer, KeyDirectory) = NULL
    /\ directory' = NULL
    /\ PrintfFlush(ErrorText(id, "invalid_params", "Missing directory parameter"))
    /\ pc' = "read"
    /\ UNCHANGED <<stdin, stdin_closed, nlines, buffer, id, dir_open, seen, first,
                   exit_status, lines_read>>

\* handle_list_files ending the process when opendir fails
handle_list_files_error_exits ==
    /\ pc = "dispatch"
    /\ Classify(buffer) = "list_files"
    /\ extract_string_value(buffer, KeyDirectory) # NULL
    /\ ~opendir(Deref(extract_string_value(buffer, KeyDirectory)))
    /\ PrintfFlush(ErrorText(id, "directory_error", "Cannot open directory"))
    /\ directory' = NULL
    /\ pc' = "done"
    /\ exit_status' = Ptr(1)
    /\ UNCHANGED <<stdin, stdin_closed, nlines, buffer, id, dir_open, seen, first,
                   lines_read>>

\* handle_list_files printing the opening of the result before it tests dir
handle_list_files_error_after_open ==
    /\ pc = "dispatch"
    /\ Classify(buffer) = "list_files"
    /\ extract_string_value(buffer, KeyDirectory) # NULL
    /\ ~opendir(Deref(extract_string_value(buffer, KeyDirectory)))
    /\ PrintfFlush(ResultOpenText(id)
                   \o ErrorText(id, "directory_error", "Cannot open directory"))
    /\ directory' = NULL
    /\ pc' = "read"
    /\ UNCHANGED <<stdin, stdin_closed, nlines, buffer, id, dir_open, seen, first,
                   exit_status, lines_read>>

\* main, lines 158-162, and handle_list_files, lines 90-94: opendir fails;
\* send_error; return; free(directory)
handle_list_files_error ==
    /\ pc = "dispatch"
    /\ Classify(buffer) = "list_files"
    /\ extract_string_value(buffer, KeyDirectory) # NULL
    /\ ~opendir(Deref(extract_string_value(buffer, KeyDirectory)))
    /\ PrintfFlush(ErrorText(id, "directory_error", "Cannot open directory"))
    /\ directory' = NULL
    /\ pc' = "read"
    /\ UNCHANGED <<stdin, stdin_closed, nlines, buffer, id, dir_open, seen, first,
                   exit_status, lines_read>>

\* main, lines 158-161, and handle_list_files, lines 90-100: opendir succeeds;
\* print the opening of the result
handle_list_files_open ==
    /\ pc = "dispatch"
    /\ Classify(buffer) = "list_files"
    /\ extract_string_value(buffer, KeyDirectory) # NULL
    /\ opendir(Deref(extract_string_value(buffer, KeyDirectory)))
    /\ directory' = extract_string_value(buffer, KeyDirectory)
    /\ dir_open' = dir_open + 1
    /\ first' = 1
    /\ Printf(ResultOpenText(id))
    /\ pc' = "listing"
    /\ UNCHANGED <<stdin, stdin_closed, nlines, buffer, id, seen, exit_status,
                   lines_read>>

\* the entries readdir can return next: none twice, at most MaxEntries
NextEntries ==
    IF Len(seen) < MaxEntries
    THEN {e \in EntriesOf(Deref(directory)) :
             \A i \in 1..Len(seen) : seen[i].d_name # e.d_name}
    ELSE {}

\* handle_list_files without the test of the name's first character
handle_list_files_hidden_listed ==
    /\ pc = "listing"
    /\ \E e \in NextEntries :
        /\ e.d_name[1] = "."
        /\ stat(e) # NULL
        /\ Printf(print_file_json_compact(Deref(directory), e.d_name,
                                          Deref(stat(e)), first = 1))
        /\ seen' = Append(seen, e)
    /\ first' = 0
    /\ UNCHANGED <<pc, stdin, stdin_closed, nlines, buffer, id, directory,
                   dir_open, exit_status, lines_read>>

\* handle_list_files, lines 102-103: readdir returns a name that begins with '.'
handle_list_files_hidden ==
    /\ pc = "listing"
    /\ \E e \in NextEntries :
        /\ e.d_name[1] = "."
        /\ seen' = Append(seen, e)
    /\ UNCHANGED <<pc, stdin, stdin_closed, nlines, buffer, id, directory,
                   dir_open, first, stdout_buf, out, exit_status, lines_read>>

\* handle_list_files clearing first for an entry whose stat fails as well
handle_list_files_stat_fails_clears_first ==
    /\ pc = "listing"
    /\ \E e \in NextEntries :
        /\ e.d_name[1] # "."
        /\ stat(e) = NULL
        /\ seen' = Append(seen, e)
    /\ first' = 0
    /\ UNCHANGED <<pc, stdin, stdin_closed, nlines, buffer, id, directory,
                   dir_open, stdout_buf, out, exit_status, lines_read>>

\* handle_list_files, lines 102-108: stat fails
handle_list_files_stat_fails ==
    /\ pc = "listing"
    /\ \E e \in NextEntries :
        /\ e.d_name[1] # "."
        /\ stat(e) = NULL
        /\ seen' = Append(seen, e)
    /\ UNCHANGED <<pc, stdin, stdin_closed, nlines, buffer, id, directory,
                   dir_open, first, stdout_buf, out, exit_status, lines_read>>

\* handle_list_files, lines 102-111: stat succeeds; print the entry
handle_list_files_print ==
    /\ pc = "listing"
    /\ \E e \in NextEntries :
        /\ e.d_name[1] # "."
        /\ stat(e) # NULL
        /\ Printf(print_file_json_compact(Deref(directory), e.d_name,
                                          Deref(stat(e)), first = 1))
        /\ seen' = Append(seen, e)
    /\ first' = 0
    /\ UNCHANGED <<pc, stdin, stdin_closed, nlines, buffer, id, directory,
                   dir_open, exit_status, lines_read>>

\* handle_list_files without the fflush after the end of the result
handle_list_files_close_unflushed ==
    /\ pc = "listing"
    /\ Printf(ResultCloseText)
    /\ dir_open' = dir_open - 1
    /\ directory' = NULL
    /\ pc' = "read"
    /\ UNCHANGED <<stdin, stdin_closed, nlines, buffer, id, seen, first,
                   exit_status, lines_read>>

\* handle_list_files without its closedir
handle_list_files_close_leaks ==
    /\ pc = "listing"
    /\ PrintfFlush(ResultCloseText)
    /\ directory' = NULL
    /\ pc' = "read"
    /\ UNCHANGED <<stdin, stdin_closed, nlines, buffer, id, dir_open, seen, first,
                   exit_status, lines_read>>

\* handle_list_files, lines 102 and 114-116: readdir returns NULL; print the end
\* of the result; flush; closedir; and main, line 162: free(directory)
handle_list_files_close ==
    /\ pc = "listing"
    /\ PrintfFlush(ResultCloseText)
    /\ dir_open' = dir_open - 1
    /\ directory' = NULL
    /\ pc' = "read"
    /\ UNCHANGED <<stdin, stdin_closed, nlines, buffer, id, seen, first,
                   exit_status, lines_read>>

\* main, lines 167-170
main_initialize ==
    /\ pc = "dispatch"
    /\ Classify(buffer) = "initialize"
    /\ PrintfFlush(InitializeText(id))
    /\ pc' = "read"
    /\ UNCHANGED <<stdin, stdin_closed, nlines, buffer, id, directory, dir_open,
                   seen, first, exit_status, lines_read>>

\* main answering an unrecognized line with an error
main_no_match_error ==
    /\ pc = "dispatch"
    /\ Classify(buffer) = "none"
    /\ PrintfFlush(ErrorText(id, "method_not_found", "Method not found"))
    /\ pc' = "read"
    /\ UNCHANGED <<stdin, stdin_closed, nlines, buffer, id, directory, dir_open,
                   seen, first, exit_status, lines_read>>

\* main, lines 155-171: no pattern matches; back to fgets
main_no_match ==
    /\ pc = "dispatch"
    /\ Classify(buffer) = "none"
    /\ pc' = "read"
    /\ UNCHANGED <<stdin, stdin_closed, nlines, buffer, id, directory, dir_open,
                   seen, first, stdout_buf, out, exit_status, lines_read>>

Next ==
    \/ send_initialization
    \/ main_fgets
    \/ main_eof
    \/ send_tools_list
    \/ main_missing_directory
    \/ handle_list_files_error
    \/ handle_list_files_open
    \/ handle_list_files_hidden
    \/ handle_list_files_stat_fails
    \/ handle_list_files_print
    \/ handle_list_files_close
    \/ main_initialize
    \/ main_no_match

Spec == Init /\ [][Next]_vars

\* the process is scheduled until it exits, and the writer closes the stream
FairSpec == Spec /\ WF_vars(Next)

----------------------------------------------------------------------------
(* The standalone lister of file_info.c.  It is a second program over the  *)
(* same state: directory holds argv[1] (NULL when the program is given no  *)
(* argument), dir_open, seen and first are main's dir, the entries readdir *)
(* has returned and first_file, stdout_buf and out its stdout, exit_status *)
(* its exit status; pc is "file_info_start", "file_info_listing",          *)
(* "file_info_closed", "file_info_failed" or "done".                       *)

\* print_file_info_json with the path always joined from directory and name
print_file_info_json_joined(dirname, filename, st) ==
    LET pwd == getpwuid(st.st_uid)
        grp == getgrgid(st.st_gid)
        file_type == get_file_type(st.st_mode)
        fullpath == snprintf(PATHSZ, dirname \o <<"/">> \o filename)
    IN  <<[k |-> "object", name |-> filename, path |-> fullpath,
           size |-> st.st_size,
           owner |-> IF pwd # NULL THEN Deref(pwd).pw_name ELSE "unknown",
           group |-> IF grp # NULL THEN Deref(grp).gr_name ELSE "unknown",
           uid |-> st.st_uid, gid |-> st.st_gid,
           permissions |-> st.st_mode % 512,
           permissions_readable |->
               << IF S_ISDIR(st.st_mode) THEN "d" ELSE "-",
                  IF BitAnd(st.st_mode, S_IRUSR) # 0 THEN "r" ELSE "-",
                  IF BitAnd(st.st_mode, S_IWUSR) # 0 THEN "w" ELSE "-",
                  IF BitAnd(st.st_mode, S_IXUSR) # 0 THEN "x" ELSE "-",
                  IF BitAnd(st.st_mode, S_IRGRP) # 0 THEN "r" ELSE "-",
                  IF BitAnd(st.st_mode, S_IWGRP) # 0 THEN "w" ELSE "-",
                  IF BitAnd(st.st_mode, S_IXGRP) # 0 THEN "x" ELSE "-",
                  IF BitAnd(st.st_mode, S_IROTH) # 0 THEN "r" ELSE "-",
                  IF BitAnd(st.st_mode, S_IWOTH) # 0 THEN "w" ELSE "-",
                  IF BitAnd(st.st_mode, S_IXOTH) # 0 THEN "x" ELSE "-" >>,
           type |-> file_type,
           modified |-> st.st_mtime, accessed |-> st.st_atime,
           changed |-> st.st_ctime,
           inode |-> st.st_ino, device |-> st.st_dev,
           hard_links |-> st.st_nlink % USHRT_RANGE,
           block_size |-> st.st_blksize, blocks |-> st.st_blocks]>>

\* the text print_file_info_json prints
print_file_info_json(dirname, filename, st) ==
    LET pwd == getpwuid(st.st_uid)
        grp == getgrgid(st.st_gid)
        file_type == get_file_type(st.st_mode)
        fullpath == IF streq(dirname, Dot)
                    THEN snprintf(PATHSZ, filename)
                    ELSE snprintf(PATHSZ, dirname \o <<"/">> \o filename)
    IN  <<[k |-> "object", name |-> filename, path |-> fullpath,
           size |-> st.st_size,
           owner |-> IF pwd # NULL THEN Deref(pwd).pw_name ELSE "unknown",
           group |-> IF grp # NULL THEN Deref(grp).gr_name ELSE "unknown",
           uid |-> st.st_uid, gid |-> st.st_gid,
           permissions |-> st.st_mode % 512,
           permissions_readable |->
               << IF S_ISDIR(st.st_mode) THEN "d" ELSE "-",
                  IF BitAnd(st.st_mode, S_IRUSR) # 0 THEN "r" ELSE "-",
                  IF BitAnd(st.st_mode, S_IWUSR) # 0 THEN "w" ELSE "-",
                  IF BitAnd(st.st_mode, S_IXUSR) # 0 THEN "x" ELSE "-",
                  IF BitAnd(st.st_mode, S_IRGRP) # 0 THEN "r" ELSE "-",
                  IF BitAnd(st.st_mode, S_IWGRP) # 0 THEN "w" ELSE "-",
                  IF BitAnd(st.st_mode, S_IXGRP) # 0 THEN "x" ELSE "-",
                  IF BitAnd(st.st_mode, S_IROTH) # 0 THEN "r" ELSE "-",
                  IF BitAnd(st.st_mode, S_IWOTH) # 0 THEN "w" ELSE "-",
                  IF BitAnd(st.st_mode, S_IXOTH) # 0 THEN "x" ELSE "-" >>,
           type |-> file_type,
           modified |-> st.st_mtime, accessed |-> st.st_atime,
           changed |-> st.st_ctime,
           inode |-> st.st_ino, device |-> st.st_dev,
           hard_links |-> st.st_nlink % USHRT_RANGE,
           block_size |-> st.st_blksize, blocks |-> st.st_blocks]>>

\* the error object main prints when opendir fails
FileInfoErrorText(p) ==
    <<[k |-> "file_info_error", error |-> "Cannot open directory", directory |-> p]>>

\* "[\n", ",\n" and "\n]\n"
ArrayOpenText == <<[k |-> "array_open"]>>
ArraySeparatorText == <<[k |-> "comma"]>>
ArrayCloseText == <<[k |-> "array_close"]>>

\* the values of argv[1]: none, or a path
Arguments == {NULL, Ptr(Dot), Ptr(DirD), Ptr(DirNoSuch), Ptr(DirEscaped)}

\* main, line 79: path = (argc > 1) ? argv[1] : "."
path == IF directory # NULL THEN Deref(directory) ELSE Dot

FileInfoInit ==
    /\ pc = "file_info_start"
    /\ directory \in Arguments
    /\ stdin = <<>>
    /\ stdin_closed = FALSE
    /\ nlines = 0
    /\ buffer = <<>>
    /\ id = 0
    /\ dir_open = 0
    /\ seen = <<>>
    /\ first = 1
    /\ stdout_buf = <<>>
    /\ out = <<>>
    /\ exit_status = NULL
    /\ lines_read = <<>>

\* main exiting with 0 after the error object
file_info_main_return_1_as_0 ==
    /\ pc = "file_info_failed"
    /\ out' = out \o stdout_buf
    /\ stdout_buf' = <<>>
    /\ exit_status' = Ptr(0)
    /\ pc' = "done"
    /\ UNCHANGED <<stdin, stdin_closed, nlines, buffer, id, directory, dir_open,
                   seen, first, lines_read>>

\* main, lines 80-85: opendir fails; print the error object
file_info_main_error ==
    /\ pc = "file_info_start"
    /\ ~opendir(path)
    /\ Printf(FileInfoErrorText(path))
    /\ pc' = "file_info_failed"
    /\ UNCHANGED <<stdin, stdin_closed, nlines, buffer, id, directory, dir_open,
                   seen, first, exit_status, lines_read>>

\* main, line 86: return 1; the exit flushes stdout
file_info_main_return_1 ==
    /\ pc = "file_info_failed"
    /\ out' = out \o stdout_buf
    /\ stdout_buf' = <<>>
    /\ exit_status' = Ptr(1)
    /\ pc' = "done"
    /\ UNCHANGED <<stdin, stdin_closed, nlines, buffer, id, directory, dir_open,
                   seen, first, lines_read>>

\* main, lines 80-93: opendir succeeds; print the opening of the array
file_info_main_open ==
    /\ pc = "file_info_start"
    /\ opendir(path)
    /\ dir_open' = dir_open + 1
    /\ first' = 1
    /\ Printf(ArrayOpenText)
    /\ pc' = "file_info_listing"
    /\ UNCHANGED <<stdin, stdin_closed, nlines, buffer, id, directory, seen,
                   exit_status, lines_read>>

\* the entries readdir can return next: none twice, at most MaxEntries
FileInfoNextEntries ==
    IF Len(seen) < MaxEntries
    THEN {e \in EntriesOf(path) :
             \A i \in 1..Len(seen) : seen[i].d_name # e.d_name}
    ELSE {}

\* main, lines 95-96: readdir returns a name that begins with '.'
file_info_main_hidden ==
    /\ pc = "file_info_listing"
    /\ \E e \in FileInfoNextEntries :
        /\ e.d_name[1] = "."
        /\ seen' = Append(seen, e)
    /\ UNCHANGED <<pc, stdin, stdin_closed, nlines, buffer, id, directory,
                   dir_open, first, stdout_buf, out, exit_status, lines_read>>

\* main, lines 95-101: stat fails
file_info_main_stat_fails ==
    /\ pc = "file_info_listing"
    /\ \E e \in FileInfoNextEntries :
        /\ e.d_name[1] # "."
        /\ stat(e) = NULL
        /\ seen' = Append(seen, e)
    /\ UNCHANGED <<pc, stdin, stdin_closed, nlines, buffer, id, directory,
                   dir_open, first, stdout_buf, out, exit_status, lines_read>>

\* main, lines 95-106: stat succeeds; print the separator unless first_file,
\* then the entry
file_info_main_print ==
    /\ pc = "file_info_listing"
    /\ \E e \in FileInfoNextEntries :
        /\ e.d_name[1] # "."
        /\ stat(e) # NULL
        /\ Printf((IF first = 0 THEN ArraySeparatorText ELSE <<>>)
                  \o print_file_info_json(path, e.d_name, Deref(stat(e))))
        /\ seen' = Append(seen, e)
    /\ first' = 0
    /\ UNCHANGED <<pc, stdin, stdin_closed, nlines, buffer, id, directory,
                   dir_open, exit_status, lines_read>>

\* main, lines 95 and 110-111: readdir returns NULL; print the end of the array;
\* closedir
file_info_main_close ==
    /\ pc = "file_info_listing"
    /\ Printf(ArrayCloseText)
    /\ dir_open' = dir_open - 1
    /\ pc' = "file_info_closed"
    /\ UNCHANGED <<stdin, stdin_closed, nlines, buffer, id, directory, seen,
                   first, exit_status, lines_read>>

\* main, line 112: return 0; the exit flushes stdout
file_info_main_return_0 ==
    /\ pc = "file_info_closed"
    /\ out' = out \o stdout_buf
    /\ stdout_buf' = <<>>
    /\ exit_status' = Ptr(0)
    /\ pc' = "done"
    /\ UNCHANGED <<stdin, stdin_closed, nlines, buffer, id, directory, dir_open,
                   seen, first, lines_read>>

FileInfoNext ==
    \/ file_info_main_error
    \/ file_info_main_return_1
    \/ file_info_main_open
    \/ file_info_main_hidden
    \/ file_info_main_stat_fails
    \/ file_info_main_print
    \/ file_info_main_close
    \/ file_info_main_return_0

FileInfoSpec == FileInfoInit /\ [][FileInfoNext]_vars

----------------------------------------------------------------------------
(* The serializers applied to one entry of any mode: seen holds the entry, *)
(* directory the path of its directory; pc is "format", then               *)
(* "formatted_compact" or "formatted_info".                                *)

\* the values of a mode: the file format and the permission bits, 0 .. 0177777
MODE_RANGE == 65536

FormatInit ==
    /\ pc = "format"
    /\ directory = Ptr(DirD)
    /\ \E mode \in 0..(MODE_RANGE - 1) :
          seen = <<[d_name |-> <<"f">>, d_type |-> "unknown",
                    st |-> Ptr(StatBuf(mode, 5, 0, 12, 1)),
                    lst |-> Ptr(StatBuf(mode, 5, 0, 12, 1))]>>
    /\ stdin = <<>>
    /\ stdin_closed = FALSE
    /\ nlines = 0
    /\ buffer = <<>>
    /\ id = 0
    /\ dir_open = 0
    /\ first = 1
    /\ stdout_buf = <<>>
    /\ out = <<>>
    /\ exit_status = NULL
    /\ lines_read = <<>>

\* file_info_mcp_server.c, line 109: print_file_json_compact on the entry
print_file_json_compact_call ==
    /\ pc = "format"
    /\ Printf(print_file_json_compact(Deref(directory), seen[1].d_name,
                                      Deref(stat(seen[1])), first = 1))
    /\ pc' = "formatted_compact"
    /\ UNCHANGED <<stdin, stdin_closed, nlines, buffer, id, directory, dir_open,
                   seen, first, exit_status, lines_read>>

\* file_info.c, line 105: print_file_info_json on the entry
print_file_info_json_call ==
    /\ pc = "format"
    /\ Printf(print_file_info_json(Deref(directory), seen[1].d_name,
                                   Deref(stat(seen[1]))))
    /\ pc' = "formatted_info"
    /\ UNCHANGED <<stdin, stdin_closed, nlines, buffer, id, directory, dir_open,
                   seen, first, exit_status, lines_read>>

FormatNext ==
    \/ print_file_json_compact_call
    \/ print_file_info_json_call

FormatSpec == FormatInit /\ [][FormatNext]_vars

----------------------------------------------------------------------------
(* The two programs side by side: a behaviour is a run of the server or a  *)
(* run of the standalone lister, over the same directories and entries.    *)

BothInit == Init \/ FileInfoInit

BothNext == Next \/ FileInfoNext

BothSpec == BothInit /\ [][BothNext]_vars

----------------------------------------------------------------------------
(* Vocabulary of the properties. *)

\* everything written to stdout so far, flushed or not
Written == out \o stdout_buf

\* the tokens written while the r-th line read was being handled
ResponseTo(r) ==
    LET mine == SelectSeq(Written, LAMBDA e : e.req = r)
    IN  [i \in 1..Len(mine) |-> mine[i].tok]

\* the number of the line being handled, or handled last (0: none read yet)
Cur == Len(lines_read)

\* the line being handled, or handled last, has been dispatched: its handler has
\* been chosen and has run or is running
Dispatched == Cur >= 1 /\ pc # "dispatch"

\* the handling of that line is over
Answered == Cur >= 1 /\ pc \in {"read", "done"}

Contains(line, pattern) ==
    \E i \in 1..(Len(line) - Len(pattern) + 1) : MatchAt(line, pattern, i)

\* the handler a token is the first output of: every handler prints one of
\* these first
HandlerOf(tok) ==
    CASE tok.k = "tools_list" -> "tools_list"
      [] tok.k \in {"error", "result_open"} -> "list_files"
      [] tok.k = "initialize_result" -> "initialize"
      [] OTHER -> "none"

\* the handlers that ran for the r-th line read, in order
HandlersRun(r) ==
    LET heads == SelectSeq(ResponseTo(r), LAMBDA t : HandlerOf(t) # "none")
    IN  [i \in 1..Len(heads) |-> HandlerOf(heads[i])]

IsNotification(tok) ==
    tok = [k |-> "notification", method |-> "notifications/initialized"]

----------------------------------------------------------------------------
(* C1: the first output is the notifications/initialized notification; it  *)
(* is written and flushed before the first input line is read (nothing is  *)
(* read, and nothing else written, before it is observable), and it is     *)
(* written exactly once in the whole run.                                  *)

StartupNotificationFirstAndOnce ==
    /\ pc = "start" =>
          /\ Written = <<>>
          /\ lines_read = <<>>
          /\ nlines = 0
    /\ pc # "start" =>
          /\ out # <<>>
          /\ IsNotification(out[1].tok)
          /\ out[1].req = 0
          /\ \A i \in 2..Len(Written) : ~IsNotification(Written[i].tok)
    /\ (pc = "read" /\ lines_read = <<>>) =>
          /\ Len(out) = 1
          /\ stdout_buf = <<>>

\* a run that has read two lines and answered both, the notification first
StartupNotificationWitness ==
    /\ pc = "done"
    /\ Len(lines_read) >= 2
    /\ Len(out) >= 3
    /\ IsNotification(out[1].tok)
    /\ ~IsNotification(out[2].tok)

----------------------------------------------------------------------------
(* C2: for every line read, the handler is the first match in the order    *)
(* "method":"tools/list", "name":"list_files", "method":"initialize",      *)
(* nothing; exactly one handler runs for a line that matches several       *)
(* patterns, the earliest in this order.  (Stated of the line being        *)
(* handled in every reachable state: what is written for a line is tagged  *)
(* with it and never changes once the next line is read.)                  *)

FirstMatchWins ==
    Dispatched =>
        LET line == lines_read[Cur]
            list == Contains(line, PatToolsList)
            call == Contains(line, PatListFiles)
            init == Contains(line, PatInitialize)
        IN  /\ list => HandlersRun(Cur) = <<"tools_list">>
            /\ (call /\ ~list) => HandlersRun(Cur) = <<"list_files">>
            /\ (init /\ ~call /\ ~list) => HandlersRun(Cur) = <<"initialize">>
            /\ (~init /\ ~call /\ ~list) => HandlersRun(Cur) = <<>>

\* a line with all three patterns has been answered with the tool catalog alone
FirstMatchWitness ==
    /\ Answered
    /\ Contains(lines_read[Cur], PatToolsList)
    /\ Contains(lines_read[Cur], PatListFiles)
    /\ Contains(lines_read[Cur], PatInitialize)
    /\ Len(ResponseTo(Cur)) = 1
    /\ ResponseTo(Cur)[1].k = "tools_list"

----------------------------------------------------------------------------
(* C3: a line with none of the three patterns produces no output, and the  *)
(* server goes on to read the next line; what is written for the following *)
(* lines is what it would be without that line: reading and dropping the   *)
(* line changes nothing but the buffer, the id and the position in the     *)
(* input, all of which the next fgets overwrites.                          *)

Unrecognized(line) ==
    /\ ~Contains(line, PatToolsList)
    /\ ~Contains(line, PatListFiles)
    /\ ~Contains(line, PatInitialize)

UnrecognizedLineIsDropped ==
    /\ [](Dispatched /\ Unrecognized(lines_read[Cur]) =>
            /\ ResponseTo(Cur) = <<>>
            /\ pc \in {"read", "done"})
    /\ [][(pc = "read" /\ pc' = "dispatch" /\ Unrecognized(buffer')) =>
            /\ out' = out
            /\ stdout_buf' = stdout_buf
            /\ dir_open' = dir_open
            /\ directory' = directory
            /\ exit_status' = exit_status]_vars
    /\ [][(pc = "dispatch" /\ Unrecognized(buffer)) =>
            /\ pc' = "read"
            /\ out' = out
            /\ stdout_buf' = stdout_buf
            /\ stdin' = stdin
            /\ stdin_closed' = stdin_closed
            /\ nlines' = nlines
            /\ dir_open' = dir_open
            /\ directory' = directory
            /\ exit_status' = exit_status]_vars

\* an unrecognized line got no answer and the line after it got one
UnrecognizedLineWitness ==
    /\ Len(lines_read) = 2
    /\ Answered
    /\ Unrecognized(lines_read[1])
    /\ ResponseTo(1) = <<>>
    /\ ResponseTo(2) # <<>>

----------------------------------------------------------------------------
(* C4: a line that invokes list_files and has no directory parameter       *)
(* yields exactly one response, the invalid_params error "Missing          *)
(* directory parameter".                                                   *)

DirectoryKey == <<Q>> \o KeyDirectory \o <<Q>>

MissingDirectoryAnswer(resp) ==
    /\ Len(resp) = 1
    /\ resp[1].k = "error"
    /\ resp[1].code = "invalid_params"
    /\ resp[1].message = "Missing directory parameter"

----------------------------------------------------------------------------
(* C5: when list_files is invoked on a directory that cannot be opened,    *)
(* the only output for the request is one directory_error error carrying   *)
(* the request id; no part of a result array is written.                   *)

\* the line invokes list_files with a directory value
InvokesListFiles(line) ==
    /\ Contains(line, PatListFiles)
    /\ ~Contains(line, PatToolsList)
    /\ extract_string_value(line, KeyDirectory) # NULL

UnopenableDirectoryOnlyError ==
    (/\ Dispatched
     /\ InvokesListFiles(lines_read[Cur])
     /\ ~opendir(Deref(extract_string_value(lines_read[Cur], KeyDirectory))))
    => /\ pc # "listing"
       /\ Len(ResponseTo(Cur)) = 1
       /\ ResponseTo(Cur)[1].k = "error"
       /\ ResponseTo(Cur)[1].code = "directory_error"
       /\ ResponseTo(Cur)[1].id \in extract_id(lines_read[Cur])
       /\ dir_open = 0

\* the call on /no/such/dir, id 4, got the directory_error alone
UnopenableDirectoryWitness ==
    /\ Answered
    /\ extract_string_value(lines_read[Cur], KeyDirectory) = Ptr(DirNoSuch)
    /\ ResponseTo(Cur) =
          <<[k |-> "error", id |-> 4, code |-> "directory_error",
             message |-> "Cannot open directory"]>>

----------------------------------------------------------------------------
(* C6: the result array of list_files holds one metadata object for each   *)
(* entry readdir returned whose name does not begin with '.' and whose     *)
(* stat succeeded, each once and in enumeration order, and nothing else.   *)

Objects(resp) == SelectSeq(resp, LAMBDA t : t.k = "object")

\* the entries enumerated so far that are not hidden and whose stat succeeded
Listable(entries) ==
    SelectSeq(entries, LAMBDA e : e.d_name[1] # "." /\ e.st # NULL)

----------------------------------------------------------------------------
(* C7: every response other than the startup notification carries the id   *)
(* extracted from the very line being processed, never an id left over     *)
(* from an earlier line.                                                   *)

CarriesId(tok) ==
    tok.k \in {"tools_list", "error", "result_open", "initialize_result"}

ResponseCarriesIdOfItsLine ==
    Cur >= 1 =>
        LET resp == ResponseTo(Cur)
        IN  /\ \A i \in 1..Len(resp) :
                CarriesId(resp[i]) => resp[i].id \in extract_id(lines_read[Cur])
            /\ resp # <<>> => CarriesId(resp[1])

\* two lines answered, the first with id 1, the second, which has no id, with -1
ResponseIdWitness ==
    /\ Len(lines_read) = 2
    /\ Answered
    /\ ResponseTo(1) # <<>>
    /\ ResponseTo(2) # <<>>
    /\ ResponseTo(1)[1].id = 1
    /\ ~Contains(lines_read[2], IdMarker)
    /\ ResponseTo(2)[1].id = -1

----------------------------------------------------------------------------
(* C8: extract_id returns -1 when the marker "id": is absent and when the  *)
(* marker is not followed by numeric characters; when digits follow the    *)
(* marker it returns their integer value, stopping at the first            *)
(* non-numeric character.                                                  *)

\* x is the id the claim gives the line.  Numeric characters are read as atoi
\* reads them (white space, an optional sign, digits); the claim gives no value
\* to a number too large for an int.
IdAsClaimed(line, x) ==
    LET at == strstr(line, IdMarker)
        after == Drop(line, at - 1 + Len(IdMarker))
        i == SkipSpace(after, 1)
        neg == i <= Len(after) /\ after[i] = "-"
        j == IF i <= Len(after) /\ after[i] \in {"-", "+"} THEN i + 1 ELSE i
        v == DigitsValue(after, j, 0)
    IN  IF at = 0 THEN x = -1
        ELSE IF j > Len(after) \/ ~isdigit(after[j]) THEN x = -1
        ELSE IF v = 1 \/ (~neg /\ v = 0 - INT_MAX - 1) THEN TRUE
        ELSE x = (IF neg THEN v ELSE 0 - v)

\* C8 as claimed, of the id main holds when it dispatches
ExtractIdDefaultsToMinusOne ==
    pc = "dispatch" => IdAsClaimed(buffer, id)

----------------------------------------------------------------------------
(* C9: for every finite sequence of input lines, whatever requests, errors *)
(* and unrecognized lines it holds, the server reads every line up to the  *)
(* end of input and then terminates with exit status 0; nothing ends the   *)
(* process before the input is closed and consumed.                        *)

\* a natural number that every step of the program decreases: the input left
\* to read (lines the writer may still send, characters not yet consumed), then
\* the steps left in the handling of the line read
StepsLeft ==
    LET input == (MaxLines - nlines) * (2 * BUFSZ) + Len(stdin)
        stage == CASE pc = "start" -> MaxEntries + 4
                   [] pc = "dispatch" -> MaxEntries + 3
                   [] pc = "listing" -> MaxEntries + 2 - Len(seen)
                   [] pc = "read" -> 1
                   [] pc = "done" -> 0
    IN  input * (MaxEntries + 5) + stage

\* wherever main is before its return, the guard of one of its steps holds:
\* fgets returns when the stream holds a line or part of one, or is at its
\* end; the if / else-if chain of main takes one branch or falls through;
\* handle_list_files either fails to open the directory or opens it, and
\* readdir ends with NULL
CanStep ==
    CASE pc = "start" -> TRUE
      [] pc = "read" -> stdin = <<>> \/ Arrivals # {}
      [] pc = "dispatch" ->
            LET branch == Classify(buffer)
                dir == extract_string_value(buffer, KeyDirectory)
            IN  \/ branch \in {"tools_list", "initialize", "none"}
                \/ /\ branch = "list_files"
                   /\ \/ dir = NULL
                      \/ opendir(Deref(dir)) \in BOOLEAN
      [] pc = "listing" -> dir_open > 0
      [] pc = "done" -> TRUE

\* The process exits only with status 0 and only at the end of input, with every
\* line read; until it has exited it can always take a step, and every step
\* decreases StepsLeft: every run of the scheduled process ends in that exit.
RunsToEndOfInputAndExitsZero ==
    /\ [](exit_status # NULL =>
            /\ pc = "done"
            /\ exit_status = Ptr(0)
            /\ stdin = <<>>
            /\ stdin_closed
            /\ Len(lines_read) >= nlines)
    /\ [](pc = "done" => exit_status # NULL)
    /\ [](CanStep)
    /\ [](StepsLeft >= 0)
    /\ [][StepsLeft' < StepsLeft]_vars

\* the server exited with 0 after an invalid_params and a directory_error
ExitZeroAfterErrorsWitness ==
    /\ pc = "done"
    /\ exit_status = Ptr(0)
    /\ Len(lines_read) = 2
    /\ \E i \in 1..Len(out) :
          out[i].tok.k = "error" /\ out[i].tok.code = "invalid_params"
    /\ \E i \in 1..Len(out) :
          out[i].tok.k = "error" /\ out[i].tok.code = "directory_error"

----------------------------------------------------------------------------
(* C10: a line that contains "name":"list_files" is handled as a tool      *)
(* invocation, never answered with the tools/list catalog or the           *)
(* initialize handshake, even when it also contains "method":"tools/list"  *)
(* or "method":"initialize".                                               *)

----------------------------------------------------------------------------
(* C11: extract_string_value never fails: it returns NULL when the pattern *)
(* "<key>":" does not occur in the line, and otherwise the characters      *)
(* after the first occurrence of the pattern up to, not including, the     *)
(* next unescaped double-quote (one that no backslash precedes).           *)

\* what follows the first occurrence of "<key>":" in the line (the line itself
\* when the pattern does not occur)
AfterKey(line, key) ==
    LET pattern == <<Q>> \o key \o <<Q, ":", Q>>
        at == {i \in 1..(Len(line) - Len(pattern) + 1) : MatchAt(line, pattern, i)}
    IN  IF at = {} THEN line ELSE Drop(line, Min(at) - 1 + Len(pattern))

\* the positions of the double-quotes of text, and of the unescaped ones
Quotes(text) == {i \in 1..Len(text) : text[i] = Q}
UnescapedQuotes(text) == {i \in Quotes(text) : i = 1 \/ text[i - 1] # BS}

\* the directory value of the line being dispatched, as the call at line 159
\* returns it
DirectoryValue == extract_string_value(buffer, KeyDirectory)

\* C11 as stated: the value ends at the next unescaped double-quote (nothing is
\* required here of a value that no unescaped double-quote ends)
StringValueEndsAtUnescapedQuote ==
    (pc = "dispatch" /\ Classify(buffer) = "list_files") =>
        LET rest == AfterKey(buffer, KeyDirectory)
        IN  /\ ~Contains(buffer, <<Q>> \o KeyDirectory \o <<Q, ":", Q>>) =>
                  DirectoryValue = NULL
            /\ (/\ Contains(buffer, <<Q>> \o KeyDirectory \o <<Q, ":", Q>>)
                /\ UnescapedQuotes(rest) # {}) =>
                  DirectoryValue = Ptr(SubSeq(rest, 1, Min(UnescapedQuotes(rest)) - 1))

\* C11, amended: the value ends at the next double-quote, escaped or not, and
\* the result is NULL as well when no double-quote follows the pattern; the
\* handler is given exactly that value
StringValueEndsAtFirstQuote ==
    /\ (pc = "dispatch" /\ Classify(buffer) = "list_files") =>
          LET rest == AfterKey(buffer, KeyDirectory)
              present == Contains(buffer, <<Q>> \o KeyDirectory \o <<Q, ":", Q>>)
          IN  /\ (~present \/ Quotes(rest) = {}) => DirectoryValue = NULL
              /\ (present /\ Quotes(rest) # {}) =>
                    DirectoryValue = Ptr(SubSeq(rest, 1, Min(Quotes(rest)) - 1))
    /\ pc = "listing" =>
          LET rest == AfterKey(buffer, KeyDirectory)
          IN  /\ Quotes(rest) # {}
              /\ directory = Ptr(SubSeq(rest, 1, Min(Quotes(rest)) - 1))

\* "directory":"/d\"x" has been answered: the value was /d\, which cannot be opened
StringValueWitness ==
    /\ Answered
    /\ lines_read[Cur] = ReqEscaped
    /\ ResponseTo(Cur) = ErrorText(16, "directory_error", "Cannot open directory")

----------------------------------------------------------------------------
(* C12: the standalone lister exits with status 1 when its directory       *)
(* cannot be opened, after printing only its error object (fields error    *)
(* and directory) and no array; whenever the directory opens it prints one *)
(* array and exits with status 0, whatever happens to the entries.         *)

\* the tokens written to stdout so far, without their tags
WrittenTokens == [i \in 1..Len(Written) |-> Written[i].tok]

Count(toks, kind) == Len(SelectSeq(toks, LAMBDA t : t.k = kind))

FileInfoExitStatus ==
    /\ exit_status # NULL <=> pc = "done"
    /\ pc = "done" => stdout_buf = <<>>
    /\ (pc = "done" /\ ~opendir(path)) =>
          /\ exit_status = Ptr(1)
          /\ WrittenTokens = FileInfoErrorText(path)
    /\ (pc = "done" /\ opendir(path)) =>
          /\ exit_status = Ptr(0)
          /\ Count(WrittenTokens, "array_open") = 1
          /\ Count(WrittenTokens, "array_close") = 1
          /\ Count(WrittenTokens, "file_info_error") = 0
          /\ WrittenTokens[1].k = "array_open"
          /\ WrittenTokens[Len(WrittenTokens)].k = "array_close"
          /\ \A i \in 2..(Len(WrittenTokens) - 1) :
                WrittenTokens[i].k \in {"object", "comma"}
    /\ pc \in {"file_info_listing", "file_info_closed"} => opendir(path)
    /\ pc = "file_info_failed" => ~opendir(path)

\* the lister has exited with 1 on /no/such/dir, its error object its only output
FileInfoExitStatusWitness ==
    /\ pc = "done"
    /\ directory = Ptr(DirNoSuch)
    /\ exit_status = Ptr(1)
    /\ Len(out) = 1
    /\ out[1].tok.k = "file_info_error"
    /\ out[1].tok.directory = DirNoSuch

----------------------------------------------------------------------------
(* C13: whenever the server is about to read the next input line, or is    *)
(* blocked reading it, the handler of every earlier line has run to its    *)
(* end and all of its output is written and flushed; responses appear on   *)
(* output in the order of the lines that caused them, and no output is     *)
(* pending while the server waits for input.                               *)

\* the response to the line handled last is whole: a result that was opened
\* is closed
ResponseComplete ==
    LET resp == ResponseTo(Cur)
    IN  (resp # <<>> /\ resp[1].k = "result_open") =>
            /\ Count(resp, "result_open") = 1
            /\ resp[Len(resp)].k = "result_close"

\* what is written is written for the lines in the order they were read
InRequestOrder ==
    \A i \in 1..Len(Written) : \A j \in i..Len(Written) :
        Written[i].req <= Written[j].req

HandlersCompleteBeforeNextRead ==
    /\ [](pc = "read" =>
            /\ stdout_buf = <<>>
            /\ dir_open = 0
            /\ directory = NULL
            /\ ResponseComplete)
    /\ [](InRequestOrder)
    /\ [][lines_read' # lines_read =>
            /\ pc = "read"
            /\ stdout_buf = <<>>
            /\ lines_read' = Append(lines_read, buffer')]_vars
    /\ [][/\ Len(Written') >= Len(Written)
          /\ SubSeq(Written', 1, Len(Written)) = Written
          /\ \A i \in (Len(Written) + 1)..Len(Written') :
                Written'[i].req = Len(lines_read)]_vars

\* the server waits for a third line after a listing of two objects and a
\* second response, all flushed, in the order of the two lines
HandlersCompleteWitness ==
    /\ pc = "read"
    /\ Cur = 2
    /\ stdout_buf = <<>>
    /\ Len(Objects(ResponseTo(1))) = 2
    /\ ResponseTo(1)[Len(ResponseTo(1))].k = "result_close"
    /\ ResponseTo(2) # <<>>
    /\ out[Len(out)].req = 2

----------------------------------------------------------------------------
(* C14: in a list_files result with k metadata objects exactly k - 1       *)
(* commas are written (0 when k is 0 or 1), each between two consecutive   *)
(* objects; there is never a leading or trailing comma, wherever the       *)
(* skipped entries are (hidden names, stat failures, first or last         *)
(* enumerated), and a result without objects is "result":[].               *)

\* what is written between the brackets of the result of the line handled last
ResultBody ==
    LET resp == ResponseTo(Cur)
        last == IF resp[Len(resp)].k = "result_close" THEN Len(resp) - 1 ELSE Len(resp)
    IN  SubSeq(resp, 2, last)

IsResult == ResponseTo(Cur) # <<>> /\ ResponseTo(Cur)[1].k = "result_open"

CommasSeparateObjects ==
    IsResult =>
        LET body == ResultBody
            k == Count(body, "object")
        IN  /\ Count(body, "comma") = (IF k = 0 THEN 0 ELSE k - 1)
            /\ Len(body) = k + Count(body, "comma")
            /\ \A i \in 1..Len(body) :
                  body[i].k = (IF i % 2 = 1 THEN "object" ELSE "comma")
            /\ (Answered /\ k = 0) =>
                  ResponseTo(Cur) = ResultOpenText(id) \o ResultCloseText
            /\ first = (IF k = 0 THEN 1 ELSE 0)

\* a finished result of two objects and one comma; the first entry enumerated
\* was skipped (its stat failed)
CommasWitness ==
    /\ Answered
    /\ IsResult
    /\ Len(seen) = 3
    /\ seen[1].d_name[1] # "." /\ seen[1].st = NULL
    /\ Count(ResultBody, "object") = 2
    /\ Count(ResultBody, "comma") = 1

----------------------------------------------------------------------------
(* C15: directory handles are scoped to one listing: each successful open  *)
(* in handle_list_files is followed by exactly one close before the        *)
(* handler returns, a failed open leaves no handle held, and so no handle  *)
(* is open wherever the server reads the next line, and at exit.           *)

DirectoryHandlesScoped ==
    /\ [](dir_open = (IF pc = "listing" THEN 1 ELSE 0))
    /\ [][dir_open' > dir_open =>
            /\ dir_open' = dir_open + 1
            /\ pc = "dispatch" /\ pc' = "listing"
            /\ opendir(Deref(directory'))]_vars
    /\ [][(pc = "listing" /\ pc' # "listing") =>
            /\ dir_open' = dir_open - 1
            /\ pc' = "read"]_vars
    /\ [][(pc = "dispatch" /\ pc' # "listing") =>
            dir_open' = dir_open /\ pc' = "read"]_vars

\* the server has exited after a listing and a failed open; no handle is open
DirectoryHandlesWitness ==
    /\ pc = "done"
    /\ dir_open = 0
    /\ Count(WrittenTokens, "result_close") = 1
    /\ \E i \in 1..Len(out) :
          out[i].tok.k = "error" /\ out[i].tok.code = "directory_error"

----------------------------------------------------------------------------
(* C16: for every mode the permission-readable string has exactly 10       *)
(* characters and depends only on the mode bits: character 1 is 'd' if the *)
(* mode is a directory and '-' otherwise; characters 2..10 are, in the     *)
(* order owner r,w,x, group r,w,x, other r,w,x, the letter when the bit is *)
(* set and '-' when it is not.  The same mode always gives the same string.*)

\* bit n of the mode (bit 0 is the lowest) is set
ModeBit(mode, n) == (mode \div (2 ^ n)) % 2 = 1

\* the mode is a directory: its file format, bits 12..15, is 0100 (S_IFDIR)
IsDirectoryMode(mode) ==
    /\ ~ModeBit(mode, 15) /\ ModeBit(mode, 14)
    /\ ~ModeBit(mode, 13) /\ ~ModeBit(mode, 12)

Letters == <<"r", "w", "x", "r", "w", "x", "r", "w", "x">>

\* the string C16 describes
PermissionString(mode) ==
    [i \in 1..10 |->
        IF i = 1 THEN (IF IsDirectoryMode(mode) THEN "d" ELSE "-")
        ELSE IF ModeBit(mode, 10 - i) THEN Letters[i - 1] ELSE "-"]

PermissionsReadableOfMode ==
    \A i \in 1..Len(Written) :
        Written[i].tok.k = "object" =>
            /\ Len(Written[i].tok.permissions_readable) = 10
            /\ Written[i].tok.permissions_readable
                  = PermissionString(Deref(stat(seen[1])).st_mode)

\* the server's serializer has printed the mode 041755, a directory with the
\* sticky bit, as "drwxr-xr-x"
PermissionsReadableWitness ==
    /\ pc = "formatted_compact"
    /\ Deref(stat(seen[1])).st_mode = 17389
    /\ Len(stdout_buf) = 1
    /\ stdout_buf[1].tok.permissions_readable
          = <<"d", "r", "w", "x", "r", "-", "x", "r", "-", "x">>

----------------------------------------------------------------------------
(* C17: each input line, whatever its length, gives rise to at most one    *)
(* response line: a line longer than the 4096-byte read buffer is still    *)
(* one request; it is not split into chunks that are each extracted,       *)
(* dispatched and answered on their own.                                   *)

\* the responses written so far: a handler begins each with one of these tokens
Responses == SelectSeq(WrittenTokens, LAMBDA t : HandlerOf(t) # "none")

OneRequestPerInputLine ==
    /\ Len(lines_read) <= nlines
    /\ Len(Responses) <= nlines

----------------------------------------------------------------------------
(* C18: for the same directory and the same filesystem state the           *)
(* standalone lister and the server's list_files handler select the same   *)
(* entries in the same order (names that begin with '.' and entries whose  *)
(* stat fails are skipped) and give every field of each entry the same     *)
(* value; they differ in the formatting of the output and in how a failed  *)
(* open is reported.                                                       *)

\* the objects are those of the entries selected, in order, each with the
\* fields the serializer given writes for it
SameObjects(objs, entries, dirname, serializer(_, _, _)) ==
    LET good == Listable(entries)
    IN  /\ Len(objs) = Len(good)
        /\ \A i \in 1..Len(objs) :
              <<objs[i]>> = serializer(dirname, good[i].d_name, Deref(good[i].st))

\* the server's serializer, for a first entry: the object alone
CompactObject(dirname, filename, st) ==
    print_file_json_compact(dirname, filename, st, TRUE)

\* What the server has written for the entries enumerated is what the lister's
\* serializer gives for them, and what the lister has written is what the
\* server's serializer gives: on the same directory and the same enumeration
\* the two write the same objects.
ListerAndServerAgree ==
    /\ pc = "listing" =>
          SameObjects(Objects(ResponseTo(Cur)), seen, Deref(directory),
                      print_file_info_json)
    /\ pc \in {"file_info_listing", "file_info_closed"} =>
          SameObjects(Objects(WrittenTokens), seen, path, CompactObject)
    /\ (pc = "done" /\ lines_read = <<>> /\ exit_status = Ptr(0)
          /\ WrittenTokens # <<>> /\ WrittenTokens[1].k = "array_open") =>
          SameObjects(Objects(WrittenTokens), seen, path, CompactObject)

\* the lister has listed ".": one object, a.txt, whose path is the name alone
ListerAndServerWitness ==
    /\ pc = "done"
    /\ WrittenTokens # <<>>
    /\ WrittenTokens[1].k = "array_open"
    /\ path = Dot
    /\ Len(Objects(WrittenTokens)) = 1
    /\ Objects(WrittenTokens)[1].path = <<"a", ".", "t", "x", "t">>

----------------------------------------------------------------------------
(* C19: entries are inspected with a stat that follows links, so no object *)
(* of a list_files result has type "symlink": a symbolic link whose target *)
(* exists is reported with the type and the metadata of its target, and    *)
(* one whose target does not exist is omitted, as any entry whose stat     *)
(* fails.                                                                  *)

\* the entries enumerated that are symbolic links
Links == SelectSeq(seen, LAMBDA e : e.d_type = "symlink")

\* the objects written for the line handled last that bear the name given
ObjectsNamed(filename) ==
    SelectSeq(Objects(ResponseTo(Cur)), LAMBDA o : o.name = filename)

====
